---- MODULE Spec2Model ----
(***************************************************************************)
(* Model of optimized_stock_ranking_app.py: the script fetches one info    *)
(* dict per ticker, builds a DataFrame, min-max normalises six metric      *)
(* columns, derives four factor scores and a composite score, ranks them,  *)
(* cuts the percentile rank into decile labels, drops the working columns  *)
(* and applies the sector filter.                                          *)
(*                                                                         *)
(* Floats are modelled as exact rationals [nan, n, d] (d > 0, reduced);    *)
(* NaN is the record with nan = TRUE.  Rounding error of IEEE doubles is   *)
(* not modelled.  The Name and Description columns are carried through the *)
(* script untouched and are left out of the rows.                          *)
(***************************************************************************)
EXTENDS Integers, Sequences, FiniteSets, TLC

\* ---------------------------------------------------------------- bounds
\* Largest ticker list returned by get_sp500_tickers.
MaxTickers == 3
\* Largest raw value the provider reports for a metric.
MaxVal == 2

\* ------------------------------------------------------------- rationals
RECURSIVE GCD(_, _)
GCD(a, b) == IF b = 0 THEN a ELSE GCD(b, a % b)

Abs(a) == IF a < 0 THEN -a ELSE a

NaN == [nan |-> TRUE, n |-> 0, d |-> 1]

\* The float a / b for integers a, b with b > 0.
Rat(a, b) ==
    LET g == GCD(Abs(a), b)
    IN  [nan |-> FALSE, n |-> a \div g, d |-> b \div g]

IsNaN(x) == x.nan

\* Float addition and multiplication; NaN is absorbing.
FAdd(x, y) ==
    IF x.nan \/ y.nan THEN NaN
    ELSE Rat(x.n * y.d + y.n * x.d, x.d * y.d)

FMul(x, y) ==
    IF x.nan \/ y.nan THEN NaN
    ELSE Rat(x.n * y.n, x.d * y.d)

\* Float comparisons; every comparison with NaN is false.
FLt(x, y) == ~x.nan /\ ~y.nan /\ x.n * y.d < y.n * x.d
FLe(x, y) == ~x.nan /\ ~y.nan /\ x.n * y.d <= y.n * x.d
FEq(x, y) == ~x.nan /\ ~y.nan /\ x.n * y.d = y.n * x.d

\* ------------------------------------------------------------ fetch_data
\* Keys of the provider's info dict read by fetch_data.
MetricKeys ==
    <<"trailingPE", "priceToBook", "priceToSalesTrailing12Months",
      "returnOnEquity", "returnOnAssets", "debtToEquity">>

\* DataFrame column of each metric, in the order of MetricKeys.
MetricCols ==
    <<"P/E Ratio", "P/B Ratio", "P/S Ratio", "ROE", "ROA", "Debt to Equity">>

Metrics == 1..6

\* Info dicts the provider may answer with.  A key is either missing or
\* carries a value (0 = the key is missing): x in 0..MaxVal drives
\* trailingPE, priceToSalesTrailing12Months and returnOnAssets, y in 0..1
\* drives priceToBook, returnOnEquity and debtToEquity, and the sector key
\* is either missing or "Technology".
InfoOf(x, y, s) ==
    LET val(k) == IF k = "sector" THEN s
                  ELSE IF k \in {"trailingPE", "priceToSalesTrailing12Months",
                                 "returnOnAssets"} THEN x ELSE y
        keys == {MetricKeys[m] : m \in Metrics} \cup {"sector"}
        dom  == {k \in keys : val(k) # 0}
    IN  [k \in dom |-> IF k = "sector" THEN "Technology" ELSE val(k)]

Infos == {InfoOf(x, y, s) : x \in 0..MaxVal, y \in 0..1, s \in 0..1}

\* dict.get(key, default)
Get(info, key, default) == IF key \in DOMAIN info THEN info[key] ELSE default

fetch_data(info) ==
    [k \in {MetricKeys[m] : m \in Metrics} \cup {"sector"} |->
        IF k = "sector" THEN Get(info, k, "N/A") ELSE Get(info, k, 0)]

\* The row appended to data for one ticker.
DataRow(ticker, info) ==
    LET r == fetch_data(info)
    IN  [c \in {"Ticker", "Sector"} \cup {MetricCols[m] : m \in Metrics} |->
            IF c = "Ticker" THEN ticker
            ELSE IF c = "Sector" THEN r["sector"]
            ELSE r[MetricKeys[CHOOSE m \in Metrics : MetricCols[m] = c]]]

\* ------------------------------------------------------ DataFrame helpers
Idx(frame) == 1..Len(frame)

\* df[c] as a sequence
Col(frame, c) == [i \in Idx(frame) |-> frame[i][c]]

\* df[c] = values
SetCol(frame, c, values) ==
    [i \in Idx(frame) |->
        [k \in DOMAIN frame[i] \cup {c} |->
            IF k = c THEN values[i] ELSE frame[i][k]]]

\* ----------------------------------------------------------- normalisation
\* Series.min() / Series.max() of an integer column (no NaN in raw data).
SeriesMin(col) == CHOOSE v \in {col[i] : i \in DOMAIN col} :
                     \A w \in {col[i] : i \in DOMAIN col} : v <= w
SeriesMax(col) == CHOOSE v \in {col[i] : i \in DOMAIN col} :
                     \A w \in {col[i] : i \in DOMAIN col} : v >= w

\* MinMaxNormalize dividing by the maximum instead of the range.
MinMaxNormalize_DivByMax(col) ==
    LET lo == SeriesMin(col)
        hi == SeriesMax(col)
    IN  [i \in DOMAIN col |->
            IF hi = 0 THEN NaN ELSE Rat(col[i] - lo, hi)]

\* (col - col.min()) / (col.max() - col.min()); 0 / 0 is NaN.
MinMaxNormalize(col) ==
    LET lo == SeriesMin(col)
        hi == SeriesMax(col)
    IN  [i \in DOMAIN col |->
            IF hi - lo = 0 THEN NaN ELSE Rat(col[i] - lo, hi - lo)]

RECURSIVE NormalizeAll(_, _)
NormalizeAll(frame, m) ==
    IF m > 6 THEN frame
    ELSE NormalizeAll(
            SetCol(frame, MetricCols[m], MinMaxNormalize(Col(frame, MetricCols[m]))),
            m + 1)

\* ----------------------------------------------------------------- scores
Half == Rat(1, 2)
w_value == Rat(3, 10)
w_quality == Rat(3, 10)
w_momentum == Rat(3, 10)
w_volatility == Rat(1, 10)

\* 0.5 * df['P/E Ratio'] + 0.5 * df['P/B Ratio']
ValueScore(row) ==
    FAdd(FMul(Half, row["P/E Ratio"]), FMul(Half, row["P/B Ratio"]))

\* 0.5 * df['ROE'] + 0.5 * df['ROA']
QualityScore(row) ==
    FAdd(FMul(Half, row["ROE"]), FMul(Half, row["ROA"]))

MomentumScore(row) == row["P/S Ratio"]

VolatilityScore(row) == row["Debt to Equity"]

\* CompositeScoreOf with four equal weights.
CompositeScoreOf_EqualWeights(row) ==
    FMul(Rat(1, 4),
         FAdd(FAdd(FAdd(row["Value Score"], row["Quality Score"]),
                   row["Momentum Score"]),
              row["Volatility Score"]))

\* 0.3 * Value + 0.3 * Quality + 0.3 * Momentum + 0.1 * Volatility,
\* summed left to right.
CompositeScoreOf(row) ==
    FAdd(FAdd(FAdd(FMul(w_value, row["Value Score"]),
                   FMul(w_quality, row["Quality Score"])),
              FMul(w_momentum, row["Momentum Score"])),
         FMul(w_volatility, row["Volatility Score"]))

\* ------------------------------------------------------------------ ranks
\* SeriesRank that ignores ascending=False.
SeriesRank_Ascending(col, ascending, pct) ==
    LET valid == {j \in DOMAIN col : ~IsNaN(col[j])}
        before(i) == Cardinality({j \in valid : FLt(col[j], col[i])})
        equal(i) == Cardinality({j \in valid : FEq(col[j], col[i])})
        cnt == Cardinality(valid)
    IN  [i \in DOMAIN col |->
            IF IsNaN(col[i]) THEN NaN
            ELSE Rat(2 * before(i) + equal(i) + 1,
                     IF pct THEN 2 * cnt ELSE 2)]

\* Series.rank(ascending=..., pct=...) with the defaults method='average'
\* and na_option='keep': the mean of the positions a value's tie group
\* occupies in sorted order; NaN stays NaN; pct divides by the number of
\* non-NaN values.
SeriesRank(col, ascending, pct) ==
    LET valid == {j \in DOMAIN col : ~IsNaN(col[j])}
        before(i) == Cardinality({j \in valid :
                        IF ascending THEN FLt(col[j], col[i])
                        ELSE FLt(col[i], col[j])})
        equal(i) == Cardinality({j \in valid : FEq(col[j], col[i])})
        cnt == Cardinality(valid)
    IN  [i \in DOMAIN col |->
            IF IsNaN(col[i]) THEN NaN
            ELSE Rat(2 * before(i) + equal(i) + 1,
                     IF pct THEN 2 * cnt ELSE 2)]

\* Series.astype(int) raises on NaN and truncates toward zero otherwise.
AsTypeIntRaises(col) == \E i \in DOMAIN col : IsNaN(col[i])
AsTypeInt(col) == [i \in DOMAIN col |-> col[i].n \div col[i].d]

Factors == <<"Value", "Quality", "Momentum", "Volatility", "Composite">>

\* Lines 77-81 one after the other, from the k-th on; the first astype(int)
\* that raises ends the script with the columns assigned so far.
RECURSIVE CalculateRanksFrom(_, _)
CalculateRanksFrom(frame, k) ==
    IF k > 5 THEN [frame |-> frame, raised |-> FALSE]
    ELSE LET r == SeriesRank(Col(frame, Factors[k] \o " Score"), FALSE, FALSE)
         IN  IF AsTypeIntRaises(r) THEN [frame |-> frame, raised |-> TRUE]
             ELSE CalculateRanksFrom(
                      SetCol(frame, Factors[k] \o " Rank", AsTypeInt(r)), k + 1)

\* ---------------------------------------------------------------- buckets
\* Labels with the upper half listed from 'Top 10%' down.
Labels_TopReversed ==
    <<"Bottom 10%", "Bottom 20%", "Bottom 30%", "Bottom 40%", "Bottom 50%",
      "Top 10%", "Top 20%", "Top 30%", "Top 40%", "Top 50%">>

Labels ==
    <<"Bottom 10%", "Bottom 20%", "Bottom 30%", "Bottom 40%", "Bottom 50%",
      "Top 50%", "Top 40%", "Top 30%", "Top 20%", "Top 10%">>

\* np.linspace(0, 1, 11)[k], k = 0..10
Bins(k) == Rat(k, 10)

\* pd.cut(x, bins, labels) with right-closed intervals (bins[k-1], bins[k]];
\* a value in no interval, or NaN, gets the missing label.
Cut(x) ==
    IF \E k \in 1..10 : FLt(Bins(k - 1), x) /\ FLe(x, Bins(k))
    THEN Labels[CHOOSE k \in 1..10 : FLt(Bins(k - 1), x) /\ FLe(x, Bins(k))]
    ELSE "NaN"

\* ----------------------------------------------------------- presentation
KeptCols ==
    {"Ticker", "Sector", "Composite Rank", "Value Rank", "Quality Rank",
     "Momentum Rank", "Volatility Rank", "Rank Percentage"}

\* df[[...]]
SelectCols(frame, cols) ==
    [i \in Idx(frame) |-> [c \in cols |-> frame[i][c]]]

\* ['All'] + list(df['Sector'].unique())
SectorOptions(frame) == {"All"} \cup {frame[i]["Sector"] : i \in Idx(frame)}

\* FilterBySector that renumbers the composite rank within the shown rows.
FilterBySector_Rerank(frame, selected) ==
    LET shown == SelectSeq(frame, LAMBDA row : row["Sector"] = selected)
    IN  SetCol(shown, "Composite Rank",
               [i \in Idx(shown) |->
                   1 + Cardinality({j \in Idx(shown) :
                          shown[j]["Composite Rank"] < shown[i]["Composite Rank"]})])

\* df[df['Sector'] == selected]
FilterBySector(frame, selected) ==
    SelectSeq(frame, LAMBDA row : row["Sector"] = selected)

\* ------------------------------------------------------------------ state
VARIABLES
    pc,               \* position in the script
    tickers,          \* list returned by get_sp500_tickers
    infos,            \* info dicts the provider answered with, per ticker
    data,             \* rows appended by the fetch loop
    df,               \* the DataFrame
    selected_sector   \* value of the sector selectbox

vars == <<pc, tickers, infos, data, df, selected_sector>>

Init ==
    /\ pc = "fetch"
    /\ \E n \in 1..MaxTickers : tickers = [i \in 1..n |-> i]
    /\ infos = <<>>
    /\ data = <<>>
    /\ df = <<>>
    /\ selected_sector = "All"

\* for ticker in tickers: info = fetch_data(ticker); data.append([...])
FetchLoop ==
    /\ pc = "fetch"
    /\ Len(data) < Len(tickers)
    /\ \E info \in Infos :
          /\ infos' = Append(infos, info)
          /\ data' = Append(data, DataRow(tickers[Len(data) + 1], info))
    /\ UNCHANGED <<pc, tickers, df, selected_sector>>

\* df = pd.DataFrame(data, columns=[...])
CreateDataFrame ==
    /\ pc = "fetch"
    /\ Len(data) = Len(tickers)
    /\ df' = data
    /\ pc' = "normalize"
    /\ UNCHANGED <<tickers, infos, data, selected_sector>>

\* # Normalize metrics
NormalizeMetrics ==
    /\ pc = "normalize"
    /\ df' = NormalizeAll(df, 1)
    /\ pc' = "scores"
    /\ UNCHANGED <<tickers, infos, data, selected_sector>>

\* # Calculate scores
CalculateScores ==
    /\ pc = "scores"
    /\ df' = LET d1 == SetCol(df, "Value Score",
                          [i \in Idx(df) |-> ValueScore(df[i])])
                 d2 == SetCol(d1, "Quality Score",
                          [i \in Idx(df) |-> QualityScore(df[i])])
                 d3 == SetCol(d2, "Momentum Score",
                          [i \in Idx(df) |-> MomentumScore(df[i])])
             IN  SetCol(d3, "Volatility Score",
                          [i \in Idx(df) |-> VolatilityScore(df[i])])
    /\ pc' = "composite"
    /\ UNCHANGED <<tickers, infos, data, selected_sector>>

\* # Composite score
CompositeScore ==
    /\ pc = "composite"
    /\ df' = SetCol(df, "Composite Score",
                 [i \in Idx(df) |-> CompositeScoreOf(df[i])])
    /\ pc' = "ranks"
    /\ UNCHANGED <<tickers, infos, data, selected_sector>>

\* # Calculate rank for each factor and composite score
CalculateRanks ==
    /\ pc = "ranks"
    /\ LET res == CalculateRanksFrom(df, 1)
       IN  /\ df' = res.frame
           /\ pc' = IF res.raised THEN "raised" ELSE "percent"
    /\ UNCHANGED <<tickers, infos, data, selected_sector>>

\* # Calculate rank in percentage terms
RankPercentage ==
    /\ pc = "percent"
    /\ df' = LET d1 == SetCol(df, "Rank",
                          SeriesRank(Col(df, "Composite Score"), TRUE, TRUE))
             IN  SetCol(d1, "Rank Percentage",
                          [i \in Idx(d1) |-> Cut(d1[i]["Rank"])])
    /\ pc' = "drop"
    /\ UNCHANGED <<tickers, infos, data, selected_sector>>

\* # Drop unnecessary columns
DropColumns ==
    /\ pc = "drop"
    /\ df' = SelectCols(df, KeptCols)
    /\ pc' = "filter"
    /\ UNCHANGED <<tickers, infos, data, selected_sector>>

\* # Sector filter
SectorFilter ==
    /\ pc = "filter"
    /\ \E choice \in SectorOptions(df) :
          /\ selected_sector' = choice
          /\ df' = IF choice # "All" THEN FilterBySector(df, choice) ELSE df
    /\ pc' = "display"
    /\ UNCHANGED <<tickers, infos, data>>

Next ==
    \/ FetchLoop
    \/ CreateDataFrame
    \/ NormalizeMetrics
    \/ CalculateScores
    \/ CompositeScore
    \/ CalculateRanks
    \/ RankPercentage
    \/ DropColumns
    \/ SectorFilter

Spec == Init /\ [][Next]_vars

\* ----------------------------------------------------------------- stages
\* df holds the normalised metric columns
HasNormalized == pc \in {"scores", "composite", "ranks", "percent", "drop", "raised"}
\* df holds the Composite Score column
HasComposite == pc \in {"ranks", "percent", "drop", "raised"}
\* df holds the five score and the five rank columns
HasRanks == pc \in {"percent", "drop"}
\* df holds Composite Score, Composite Rank and Rank Percentage
HasBuckets == pc = "drop"

Zero == Rat(0, 1)
One == Rat(1, 1)

\* ----------------------------------------------------------------- claims

\* C1: after a ranking run the Composite Rank values of the k issuers with a
\* defined composite score are a bijection onto 1..k, and issuers with equal
\* composite scores get distinct ranks in ascending ticker order.
C1_RankBijection ==
    HasRanks =>
        LET defined == {i \in Idx(df) : ~IsNaN(df[i]["Composite Score"])}
            k == Cardinality(defined)
        IN  /\ {df[i]["Composite Rank"] : i \in defined} = 1..k
            /\ \A i, j \in defined :
                  i # j => df[i]["Composite Rank"] # df[j]["Composite Rank"]
            /\ \A i, j \in defined :
                  (/\ FEq(df[i]["Composite Score"], df[j]["Composite Score"])
                   /\ df[i]["Ticker"] < df[j]["Ticker"])
                  => df[i]["Composite Rank"] < df[j]["Composite Rank"]

C3_DegenerateIsHalf ==
    HasNormalized =>
        \A m \in Metrics :
            LET raw == Col(data, MetricCols[m])
            IN  (\A i, j \in Idx(data) : raw[i] = raw[j]) =>
                    \A i \in Idx(df) : FEq(df[i][MetricCols[m]], Half)

\* C4: a metric the provider does not supply for an issuer is never turned
\* into the number 0 in the fetched row.
C4_AbsentNeverZero ==
    \A i \in Idx(data) : \A m \in Metrics :
        MetricKeys[m] \notin DOMAIN infos[i] => data[i][MetricCols[m]] # 0

\* C5: for every issuer whose four factor scores are defined, the composite
\* score is 0.3*Value + 0.3*Quality + 0.3*Momentum + 0.1*Volatility with
\* Value = mean(P/E, P/B) and Quality = mean(ROE, ROA) of the normalised
\* metrics, and the four weights sum to 1.
C5_CompositeWeightedSum ==
    HasComposite =>
        \A i \in Idx(df) :
            LET r == df[i]
                sum3(a, b, c) == FAdd(FAdd(a, b), c)
            IN  (/\ ~IsNaN(r["Value Score"]) /\ ~IsNaN(r["Quality Score"])
                 /\ ~IsNaN(r["Momentum Score"]) /\ ~IsNaN(r["Volatility Score"]))
                =>
                /\ FEq(FMul(Rat(10, 1), r["Composite Score"]),
                       FAdd(FMul(Rat(3, 1),
                                 sum3(r["Value Score"], r["Quality Score"],
                                      r["Momentum Score"])),
                            r["Volatility Score"]))
                /\ FEq(FMul(Rat(2, 1), r["Value Score"]),
                       FAdd(r["P/E Ratio"], r["P/B Ratio"]))
                /\ FEq(FMul(Rat(2, 1), r["Quality Score"]),
                       FAdd(r["ROE"], r["ROA"]))
                /\ FEq(FAdd(sum3(w_value, w_quality, w_momentum), w_volatility),
                       One)

\* an issuer with four defined, pairwise different factor contributions
C5_Witness ==
    /\ pc = "percent"
    /\ \E i \in Idx(df) :
          /\ FLt(Zero, df[i]["Composite Score"])
          /\ FLt(df[i]["Composite Score"], One)
          /\ ~FEq(df[i]["Momentum Score"], df[i]["Volatility Score"])
          /\ ~FEq(df[i]["P/E Ratio"], df[i]["P/B Ratio"])

\* C6: every issuer whose Composite Rank is 1 has the bucket 'Top 10%'.
C6_RankOneTopBucket ==
    HasBuckets =>
        \A i \in Idx(df) :
            df[i]["Composite Rank"] = 1 => df[i]["Rank Percentage"] = "Top 10%"

\* The order of the bucket labels, worst to best.
BucketOrder ==
    <<"Bottom 10%", "Bottom 20%", "Bottom 30%", "Bottom 40%", "Bottom 50%",
      "Top 50%", "Top 40%", "Top 30%", "Top 20%", "Top 10%">>

BucketPos(label) == CHOOSE k \in 1..10 : BucketOrder[k] = label

\* C7: every issuer with a defined composite score gets exactly one of the
\* ten labels, and an issuer with a composite score at least as high as
\* another's has a bucket at least as good.
C7_BucketMonotonic ==
    HasBuckets =>
        /\ \A a \in Idx(df) :
              ~IsNaN(df[a]["Composite Score"]) =>
                  \E k \in 1..10 : df[a]["Rank Percentage"] = BucketOrder[k]
        /\ \A a, b \in Idx(df) :
              FLe(df[b]["Composite Score"], df[a]["Composite Score"]) =>
                  BucketPos(df[a]["Rank Percentage"])
                      >= BucketPos(df[b]["Rank Percentage"])

\* three issuers with three different composite scores in three buckets
C7_Witness ==
    /\ pc = "drop"
    /\ \E a, b, c \in Idx(df) :
          /\ FLt(df[b]["Composite Score"], df[a]["Composite Score"])
          /\ FLt(df[c]["Composite Score"], df[b]["Composite Score"])
          /\ df[a]["Rank Percentage"] # df[b]["Rank Percentage"]
          /\ df[b]["Rank Percentage"] # df[c]["Rank Percentage"]

\* C8: the sector filter shows, for a selected sector, only rows of that
\* sector, each exactly as it was in the unfiltered table (same ranks and
\* bucket), and for 'All' the whole table.
C8_FilterKeepsRanks ==
    [][pc = "filter" =>
          IF selected_sector' = "All" THEN df' = df
          ELSE \A i \in Idx(df') :
                  /\ df'[i]["Sector"] = selected_sector'
                  /\ \E j \in Idx(df) : df[j] = df'[i]]_vars

\* a sector is selected, rows are hidden, and a shown row still carries a
\* rank larger than the number of rows shown
C8_Witness ==
    /\ pc = "display"
    /\ selected_sector # "All"
    /\ Len(df) < Len(data)
    /\ \E i \in Idx(df) : df[i]["Composite Rank"] > Len(df)

\* C9: an issuer whose composite score is unavailable does not abort the
\* run; it is ranked after every issuer with a defined composite score, in
\* ticker order within the unavailable block, and is bucketed 'Not Ranked'.
C9_UnavailableRankedLast ==
    HasComposite =>
        \A i \in Idx(df) :
            IsNaN(df[i]["Composite Score"]) =>
                /\ pc # "raised"
                /\ HasBuckets =>
                      /\ df[i]["Rank Percentage"] = "Not Ranked"
                      /\ \A j \in Idx(df) :
                            (\/ ~IsNaN(df[j]["Composite Score"])
                             \/ df[j]["Ticker"] < df[i]["Ticker"])
                            => df[j]["Composite Rank"] < df[i]["Composite Rank"]

\* C10: in each of the five rank columns a strictly higher score has a
\* strictly smaller rank, the issuer with the uniquely highest score has
\* rank 1, and every rank is in 1..n.
C10_RankOrder ==
    HasRanks =>
        \A k \in 1..5 :
            LET score == Col(df, Factors[k] \o " Score")
                rnk == Col(df, Factors[k] \o " Rank")
            IN  \A a \in Idx(df) :
                    /\ rnk[a] \in 1..Len(df)
                    /\ \A b \in Idx(df) :
                          FLt(score[b], score[a]) => rnk[a] < rnk[b]
                    /\ (\A b \in Idx(df) \ {a} : FLt(score[b], score[a]))
                          => rnk[a] = 1

\* a unique best issuer above two issuers tied with each other
C10_Witness ==
    /\ pc = "percent"
    /\ \E a, b, c \in Idx(df) :
          /\ b # c
          /\ FLt(df[b]["Composite Score"], df[a]["Composite Score"])
          /\ FEq(df[b]["Composite Score"], df[c]["Composite Score"])
          /\ df[a]["Composite Rank"] = 1
          /\ df[b]["Composite Rank"] = df[c]["Composite Rank"]
====
